---- MODULE Spec2Model ----
(***************************************************************************)
(* A model of uevr::API (include/uevr/API.hpp): the process-wide singleton,*)
(* the lazily bound per-kind function tables, the function-local static    *)
(* function pointers of every wrapper operation, and the wrapper           *)
(* operations themselves, executed step by step by one or two threads      *)
(* against a host that answers through the startup descriptor's tables.    *)
(***************************************************************************)
EXTENDS Integers, Sequences, FiniteSets, TLC

\* ------------------------------------------------------------------ bounds
NObj == 3           \* ordinary host objects 1..NObj
MaxLive == 2        \* most live instances the host reports for a class
MaxCalls == 3       \* top-level calls made in one single-threaded behaviour
MaxCallsMT == 2     \* top-level calls made in one two-threaded behaviour
MaxWalk == 5        \* outer-walk iterations explored before the model stops
NDesc == 2          \* distinct startup descriptors a caller may pass

\* --------------------------------------------------------------- constants
Null == 0           \* nullptr, for handles, descriptors and instances
Dot == 46           \* L'.'
Space == 32         \* L' '

VARIABLES
    s_instance,     \* API::s_instance: [id, param], id = 0 when empty
    s_functions,    \* per kind: K::s_functions, Null or the descriptor it came from
    guard,          \* per function-local static: "uninit" | "busy" | "done"
    bound,          \* per function-local static: its value once initialised
    th,             \* per thread: the call it is executing and its locals
    created,        \* number of API objects constructed so far
    fetches,        \* per descriptor table: reads of that table pointer so far
    ncalls,         \* top-level calls started so far
    active,         \* the threads that exist in this process
    budget,         \* top-level calls this behaviour may make
    passed,         \* distinct descriptors callers have passed to initialize
    hostOuter,      \* host: the outer of each object the bridge has asked about
    activations,    \* host: calls of uobject_hook->activate received so far
    rejected        \* the remembered operations that have ended "not initialized"

vars == <<s_instance, s_functions, guard, bound, th, created, fetches, ncalls,
          active, budget, passed, hostOuter, activations, rejected>>

\* ---------------------------------------------------------- host handles
Objs == 1..NObj
Klass == NObj + 1               \* the class object of every ordinary object
Cdo == NObj + 2                 \* that class's default object
Orphan == NObj + 3              \* an object whose class lookup finds nothing
Handles == 1..(NObj + 3)
EmptyName == NObj + 4           \* a name handle whose text is empty
Names == 1..(NObj + 4)
Descs == 1..NDesc               \* descriptors, in the order callers first pass them
Threads == {1, 2}

\* The eight wrapper kinds, named by the descriptor field holding their table.
Kinds == {"fname", "uobject", "ustruct", "uclass", "ufunction", "ffield",
          "fproperty", "ffield_class"}
\* Every table pointer read out of UEVR_SDKData.
Tables == Kinds \cup {"uobject_hook", "uobject_array"}

\* The wrapper operations that are one cached function pointer and one call.
SimpleOps ==
    {"UObject.get_class", "UObject.get_outer", "UObject.is_a",
     "UObject.process_event", "UObject.call_function",
     "UObject.get_property_data", "UObject.get_fname",
     "UStruct.get_super_struct", "UStruct.find_function",
     "UStruct.get_child_properties",
     "UClass.get_class_default_object",
     "UFunction.get_native_function",
     "FField.get_next", "FField.get_fname", "FField.get_class",
     "FProperty.get_offset",
     "FFieldClass.get_fname"}

\* The wrappers that declare static_class().
ClassKinds == {"UObject", "UStruct", "UClass", "UFunction"}

StaticClassSite(k) == k \o ".static_class"

HookSites ==
    {"UClass.get_objects_matching.activate_fn", "UClass.get_objects_matching.fn",
     "UClass.get_first_object_matching.activate_fn",
     "UClass.get_first_object_matching.fn"}

\* Every function-local static of the header.
Sites == SimpleOps \cup {"FName.to_string", "API.find_uobject"} \cup HookSites
         \cup {StaticClassSite(k) : k \in ClassKinds}

\* The table a static's initialiser reads its pointer from.
SiteTable(s) ==
    CASE s = "FName.to_string" -> "fname"
      [] s \in {"UObject.get_class", "UObject.get_outer", "UObject.is_a",
                "UObject.process_event", "UObject.call_function",
                "UObject.get_property_data", "UObject.get_fname"} -> "uobject"
      [] s \in {"UStruct.get_super_struct", "UStruct.find_function",
                "UStruct.get_child_properties"} -> "ustruct"
      [] s = "UClass.get_class_default_object" -> "uclass"
      [] s = "UFunction.get_native_function" -> "ufunction"
      [] s \in {"FField.get_next", "FField.get_fname", "FField.get_class"} -> "ffield"
      [] s = "FProperty.get_offset" -> "fproperty"
      [] s = "FFieldClass.get_fname" -> "ffield_class"
      [] s \in HookSites -> "uobject_hook"
      [] OTHER -> "uobject_array"

\* A static initialised through K::initialize(), that is through K::s_functions.
IsTableSite(s) == s \in SimpleOps \cup {"FName.to_string"}
\* A static_class() result: initialised by API::get()->find_uobject(...).
IsClassSite(s) == s \in {StaticClassSite(k) : k \in ClassKinds}
\* find_uobject's own static: initialised from this->sdk(), no API::get().
IsMemberSite(s) == s = "API.find_uobject"

\* ------------------------------------------------------------------ host
\* What the host's function tables answer.  The host is opaque to the
\* bridge; only the answers the wrappers consume are modelled.
HostClass(o) == IF o = Orphan THEN Null ELSE Klass
\* The host fixes an object's outer before the bridge first asks for it and
\* never changes it; hostOuter holds the answers given so far.
\* Objects the bridge has not met are interchangeable, so an outer it has not
\* met is taken to be the greatest object not met yet.
Met(o) == {o} \cup DOMAIN hostOuter
              \cup ({hostOuter[x] : x \in DOMAIN hostOuter} \cap Objs)
Unmet(o) ==
    LET u == Objs \ Met(o)
    IN IF u = {} THEN {} ELSE {CHOOSE x \in u : \A y \in u : y <= x}
HostOuters(o) ==
    IF o \notin Objs THEN {Null}
    ELSE IF o \in DOMAIN hostOuter THEN {hostOuter[o]}
    ELSE {Null} \cup Met(o) \cup Unmet(o)
Observed(o, outer) ==
    IF o \notin Objs THEN hostOuter
    ELSE [x \in DOMAIN hostOuter \cup {o} |-> IF x = o THEN outer ELSE hostOuter[x]]
HostFName(h) == h
HostText(n) ==
    CASE n \in Objs -> <<64 + n>>
      [] n = Klass -> <<75, 108>>
      [] n = Cdo -> <<100, 111>>
      [] n = Orphan -> <<111>>
      [] OTHER -> <<>>

Min(a, b) == IF a < b THEN a ELSE b

\* to_string(name, buffer, buffer_size) writing into a caller buffer that
\* holds `size` characters, all L'\0' before the call: at most
\* buffer_size - 1 characters are written, then the terminator.
HostToStringFill(n, size, cap) ==
    LET text == HostText(n)
        w == IF cap = 0 THEN 0 ELSE Min(Len(text), cap - 1)
    IN [i \in 1..size |-> IF i <= w THEN text[i] ELSE 0]

\* The objects get_objects_by_class reports while the class has `n` live
\* instances; the host creates and destroys instances on its own schedule.
HostMatching(n, allow_default) ==
    [i \in 1..n |-> i] \o (IF allow_default = 1 THEN <<Cdo>> ELSE <<>>)

\* get_objects_by_class(klass, out, max, allow_default) writing into a caller
\* buffer of `size` null handles.
HostObjectsFill(n, allow_default, size, cap) ==
    LET m == HostMatching(n, allow_default)
        w == Min(Len(m), cap)
    IN [i \in 1..size |-> IF i <= w THEN m[i] ELSE Null]

\* The answers of the single-call host functions.
HostAnswers(fn, self, arg) ==
    CASE fn = "UObject.get_class" -> {HostClass(self)}
      [] fn = "UObject.get_outer" -> HostOuters(self)
      [] fn = "UObject.is_a" -> {IF arg # Null /\ HostClass(self) = arg THEN 1 ELSE 0}
      [] fn \in {"UObject.get_fname", "FField.get_fname", "FFieldClass.get_fname"}
            -> {HostFName(self)}
      [] fn \in {"UObject.process_event", "UObject.call_function"} -> {0}
      [] fn = "UClass.get_class_default_object" -> {Cdo}
      [] OTHER -> {Null, Klass}

\* --------------------------------------------------------------- threads
NoInstance == [id |-> Null, param |-> Null]

\* A thread that is executing nothing.
IdleThread ==
    [pc |-> "idle", op |-> "none", tk |-> "none", self |-> Null, arg |-> Null,
     ph |-> "none", fn |-> "none", k |-> "none",
     c |-> Null, cur |-> Null, name |-> Null, size |-> 0,
     obj_name |-> <<>>, walk |-> 0,
     out |-> "none", retH |-> Null, retS |-> <<>>, calls |-> <<>>]

\* One host call as the host sees it.
HostCall(f, h, isnull, buflen, cap, flag, res) ==
    [fn |-> f, h |-> h, nullbuf |-> isnull, buflen |-> buflen, cap |-> cap,
     flag |-> flag, res |-> res]

\* The statement a simple wrapper starts at, and the static it declares.
EntryPh(op) ==
    CASE op = "API.initialize" -> "ini_chk"
      [] op = "API.get" -> "api_get"
      [] op = "FName.to_string" -> "ts_size"
      [] op = "UObject.get_full_name" -> "fn_class"
      [] op = "FFieldClass.get_name" -> "fname"
      [] op = "UClass.get_objects_matching" -> "gom_s1"
      [] op = "UClass.get_first_object_matching" -> "gfo_s1"
      [] op = "UFunction.call" -> "call_chk"
      [] op \in {"static_class", "UObject.is_a<T>"} -> "sc"
      [] OTHER -> "simple"

EntryFn(op) ==
    CASE op \in SimpleOps -> op
      [] op = "UStruct.get_super" -> "UStruct.get_super_struct"
      [] op = "FFieldClass.get_name" -> "FFieldClass.get_fname"
      [] OTHER -> "none"

\* The wrapper operations a caller can invoke, with the arguments explored.
WrapperOps ==
    SimpleOps \cup
    {"FName.to_string", "UObject.get_full_name", "UObject.is_a<T>",
     "static_class", "UStruct.get_super", "UClass.get_objects_matching",
     "UClass.get_first_object_matching", "UFunction.call",
     "FFieldClass.get_name"}

AllOps == WrapperOps \cup {"API.initialize", "API.get"}

Selves(op) ==
    CASE op = "FName.to_string" -> {1, Klass, EmptyName}
      [] op \in {"UObject.get_full_name", "UObject.get_class", "UObject.get_outer"}
            -> {NObj, Klass, Orphan}
      [] op \in {"UClass.get_objects_matching", "UClass.get_first_object_matching",
                 "UClass.get_class_default_object"} -> {Klass}
      [] op \in {"API.initialize", "API.get", "static_class"} -> {Null}
      [] OTHER -> {1}

Args(op) ==
    CASE op = "API.initialize" -> {Null} \cup (1..Min(NDesc, passed + 1))
      [] op \in {"UObject.is_a", "UFunction.call"} -> {Null, Klass}
      [] op \in {"UClass.get_objects_matching", "UClass.get_first_object_matching"}
            -> {0, 1}
      [] OTHER -> {Null}

TypeArgs(op) ==
    IF op \in {"static_class", "UObject.is_a<T>"} THEN ClassKinds ELSE {"none"}

\* The static declared by the statement thread record r is at.
SiteOf(r) ==
    CASE r.ph \in {"simple", "fname"} -> r.fn
      [] r.ph = "ts_size" -> "FName.to_string"
      [] r.ph = "fn_class" -> "UObject.get_class"
      [] r.ph = "fn_outer" -> "UObject.get_outer"
      [] r.ph = "gom_s1" -> "UClass.get_objects_matching.activate_fn"
      [] r.ph = "gom_s2" -> "UClass.get_objects_matching.fn"
      [] r.ph = "gfo_s1" -> "UClass.get_first_object_matching.activate_fn"
      [] r.ph = "gfo_s2" -> "UClass.get_first_object_matching.fn"
      [] r.ph = "sc" -> StaticClassSite(r.tk)
      [] r.ph = "fu" -> "API.find_uobject"
      [] r.ph = "call_pe" -> "UObject.process_event"
      [] OTHER -> "none"

\* The statement at r can execute: its static, if any, is initialised.
Ready(r) ==
    /\ r.pc = "run"
    /\ SiteOf(r) # "none" => guard[SiteOf(r)] = "done"

Returned(r, o) == [r EXCEPT !.pc = "done", !.out = o]

Init0 ==
    /\ s_functions = [k \in Kinds |-> Null]
    /\ guard = [s \in Sites |-> "uninit"]
    /\ bound = [s \in Sites |-> Null]
    /\ th = [t \in Threads |-> IdleThread]
    /\ fetches = [k \in Tables |-> 0]
    /\ ncalls = 0
    /\ hostOuter = [o \in {} |-> Null]
    /\ activations = 0
    /\ rejected = {}

\* One thread, from process start.
Init ==
    /\ Init0
    /\ s_instance = NoInstance
    /\ created = 0
    /\ passed = 0
    /\ active = {1}
    /\ budget = MaxCalls

\* A caller starts a top-level call.
BeginCall(t) ==
    /\ th[t].pc \in {"idle", "done"}
    /\ ncalls < budget
    /\ \E op \in AllOps : \E self \in Selves(op) : \E arg \in Args(op) :
       \E tk \in TypeArgs(op) :
         th' = [th EXCEPT ![t] =
                  [IdleThread EXCEPT !.pc = "run", !.op = op, !.tk = tk,
                                     !.self = self, !.arg = arg, !.cur = self,
                                     !.name = self,
                                     !.ph = EntryPh(op), !.fn = EntryFn(op),
                                     !.k = "ret"]]
    /\ ncalls' = ncalls + 1
    /\ passed' = IF th'[t].op = "API.initialize" /\ th'[t].arg > passed
                 THEN th'[t].arg ELSE passed
    /\ UNCHANGED <<s_instance, s_functions, guard, bound, created, fetches,
                   active, budget, hostOuter, activations, rejected>>

\* ---------------------------------------------------- ProcessEntryPoint
\* API::get() without its s_instance == nullptr test.
APIGetThrows_Never == FALSE

\* API::get(): throws "API not initialized" while s_instance is empty.
APIGetThrows == s_instance.id = Null

\* API::initialize without its s_instance != nullptr test.
InitializeOutcome_NoAlreadyTest(param) ==
    IF param = Null THEN "null_param" ELSE "ok"

\* API::initialize with its two tests in the other order.
InitializeOutcome_TestsSwapped(param) ==
    CASE s_instance.id # Null -> "already_initialized"
      [] param = Null -> "null_param"
      [] OTHER -> "ok"

\* API::initialize: the two rejections, in the order the code tests them.
InitializeOutcome(param) ==
    CASE param = Null -> "null_param"
      [] s_instance.id # Null -> "already_initialized"
      [] OTHER -> "ok"

\* API::initialize up to and including its s_instance != nullptr test.
InitializeCheck(t) ==
    /\ Ready(th[t]) /\ th[t].ph = "ini_chk"
    /\ LET o == InitializeOutcome(th[t].arg)
       IN th' = [th EXCEPT ![t] =
                   IF o = "ok" THEN [@ EXCEPT !.ph = "ini_make"]
                   ELSE Returned(@, o)]
    /\ UNCHANGED <<s_instance, s_functions, guard, bound, created, fetches,
                   ncalls, active, budget, passed, hostOuter,
                   activations, rejected>>

\* s_instance = std::make_unique<API>(param); return s_instance;
InitializeMake(t) ==
    /\ Ready(th[t]) /\ th[t].ph = "ini_make"
    /\ created' = created + 1
    /\ s_instance' = [id |-> created + 1, param |-> th[t].arg]
    /\ th' = [th EXCEPT ![t] = [Returned(@, "ok") EXCEPT !.retH = created + 1]]
    /\ UNCHANGED <<s_functions, guard, bound, fetches, ncalls, active,
                   budget, passed, hostOuter, activations, rejected>>

\* A caller's own API::get().
APIGet(t) ==
    /\ Ready(th[t]) /\ th[t].ph = "api_get"
    /\ th' = [th EXCEPT ![t] =
                IF APIGetThrows THEN Returned(@, "not_initialized")
                ELSE [Returned(@, "ok") EXCEPT !.retH = s_instance.id]]
    /\ UNCHANGED <<s_instance, s_functions, guard, bound, created, fetches,
                   ncalls, active, budget, passed, hostOuter,
                   activations, rejected>>

\* ------------------------------------------------- FunctionTableCache
\* K::initialize() without its s_functions == nullptr test.
CachedTable_Never(k) == FALSE

\* K::initialize()'s test: the kind's table pointer is already cached.
CachedTable(k) == s_functions[k] # Null

\* Control reaches a function-local static that no thread has initialised:
\* this thread takes the static's guard and runs the initialiser.  A thread
\* reaching a static another thread is initialising waits.
StaticBegin(t) ==
    /\ th[t].pc = "run"
    /\ SiteOf(th[t]) # "none"
    /\ guard[SiteOf(th[t])] = "uninit"
    /\ guard' = [guard EXCEPT ![SiteOf(th[t])] = "busy"]
    /\ th' = [th EXCEPT ![t].pc = IF IsTableSite(SiteOf(th[t])) THEN "init" ELSE "get"]
    /\ UNCHANGED <<s_instance, s_functions, bound, created, fetches, ncalls,
                   active, budget, passed, hostOuter, activations, rejected>>

\* K::initialize(): if (s_functions == nullptr) ... return s_functions;
KindInitialize(t) ==
    /\ th[t].pc = "init"
    /\ LET s == SiteOf(th[t])
           k == SiteTable(s)
       IN IF CachedTable(k)
          THEN /\ guard' = [guard EXCEPT ![s] = "done"]
               /\ bound' = [bound EXCEPT ![s] = s_functions[k]]
               /\ th' = [th EXCEPT ![t].pc = "run"]
          ELSE /\ th' = [th EXCEPT ![t].pc = "get"]
               /\ UNCHANGED <<guard, bound>>
    /\ UNCHANGED <<s_instance, s_functions, created, fetches, ncalls, active,
                   budget, passed, hostOuter, activations, rejected>>

\* The operations whose rejection the model remembers after the call: one
\* with a single static behind a kind's table, one with two statics of its own.
Remembered == {"UObject.get_class", "UClass.get_objects_matching"}

\* A static whose initialiser threw counted as initialised all the same.
GuardAfterThrow_Poisoned == "done"

\* A function-local static whose initialiser exits by an exception is not
\* initialised: the initialiser runs again when control next reaches it.
GuardAfterThrow == "uninit"

\* API::get() throws inside a static's initialiser: the static stays
\* uninitialised and the exception leaves the wrapper.
GetThrow(t) ==
    /\ th[t].pc = "get"
    /\ ~IsMemberSite(SiteOf(th[t]))
    /\ APIGetThrows
    /\ guard' = [guard EXCEPT ![SiteOf(th[t])] = GuardAfterThrow]
    /\ th' = [th EXCEPT ![t] = Returned(@, "not_initialized")]
    /\ rejected' = rejected \cup ({th[t].op} \cap Remembered)
    /\ UNCHANGED <<s_instance, s_functions, bound, created, fetches, ncalls,
                   active, budget, passed, hostOuter, activations>>

\* s_functions = API::get()->sdk()-><kind>; and the static takes its pointer.
TableFetch(t) ==
    /\ th[t].pc = "get"
    /\ IsTableSite(SiteOf(th[t]))
    /\ ~APIGetThrows
    /\ LET s == SiteOf(th[t])
           k == SiteTable(s)
       IN /\ s_functions' = [s_functions EXCEPT ![k] = s_instance.param]
          /\ fetches' = [fetches EXCEPT ![k] = @ + 1]
          /\ guard' = [guard EXCEPT ![s] = "done"]
          /\ bound' = [bound EXCEPT ![s] = s_instance.param]
    /\ th' = [th EXCEPT ![t].pc = "run"]
    /\ UNCHANGED <<s_instance, created, ncalls, active, budget, passed, hostOuter,
                   activations, rejected>>

\* static auto fn = API::get()->sdk()->uobject_hook-><function>;
HookFetch(t) ==
    /\ th[t].pc = "get"
    /\ SiteOf(th[t]) \in HookSites
    /\ ~APIGetThrows
    /\ fetches' = [fetches EXCEPT !["uobject_hook"] = @ + 1]
    /\ guard' = [guard EXCEPT ![SiteOf(th[t])] = "done"]
    /\ bound' = [bound EXCEPT ![SiteOf(th[t])] = s_instance.param]
    /\ th' = [th EXCEPT ![t].pc = "run"]
    /\ UNCHANGED <<s_instance, s_functions, created, ncalls, active,
                   budget, passed, hostOuter, activations, rejected>>

\* static auto result = API::get()->find_uobject<UClass>(...): API::get()
\* returned, find_uobject is entered with static_class's guard still held.
ClassLookup(t) ==
    /\ th[t].pc = "get"
    /\ IsClassSite(SiteOf(th[t]))
    /\ ~APIGetThrows
    /\ th' = [th EXCEPT ![t] = [@ EXCEPT !.pc = "run", !.ph = "fu"]]
    /\ UNCHANGED <<s_instance, s_functions, guard, bound, created, fetches,
                   ncalls, active, budget, passed, hostOuter,
                   activations, rejected>>

\* find_uobject: static const auto fn = sdk()->uobject_array->find_uobject;
FindUObjectBind(t) ==
    /\ th[t].pc = "get"
    /\ IsMemberSite(SiteOf(th[t]))
    /\ fetches' = [fetches EXCEPT !["uobject_array"] = @ + 1]
    /\ guard' = [guard EXCEPT ![SiteOf(th[t])] = "done"]
    /\ bound' = [bound EXCEPT ![SiteOf(th[t])] = s_instance.param]
    /\ th' = [th EXCEPT ![t].pc = "run"]
    /\ UNCHANGED <<s_instance, s_functions, created, ncalls, active,
                   budget, passed, hostOuter, activations, rejected>>

\* ---------------------------------------------------- WrapperHierarchy
Logged(r, call) == [r EXCEPT !.calls = Append(@, call)]

\* static const auto fn = initialize()-><op>; return fn(to_handle(), ...);
SimpleCall(t) ==
    /\ Ready(th[t]) /\ th[t].ph = "simple"
    /\ \E res \in HostAnswers(th[t].fn, th[t].cur, th[t].arg) :
         /\ th' = [th EXCEPT ![t] =
                     [Returned(Logged(@, HostCall(@.fn, @.cur, TRUE, 0, 0, @.arg, res)),
                               "ok") EXCEPT !.retH = res]]
         /\ hostOuter' = IF th[t].fn = "UObject.get_outer"
                         THEN Observed(th[t].cur, res) ELSE hostOuter
    /\ UNCHANGED <<s_instance, s_functions, guard, bound, created, fetches,
                   ncalls, active, budget, passed, activations, rejected>>

\* get_fname() on the object whose name is wanted next.
GetFName(t) ==
    /\ Ready(th[t]) /\ th[t].ph = "fname"
    /\ th' = [th EXCEPT ![t] =
                [Logged(@, HostCall(@.fn, @.cur, TRUE, 0, 0, 0, HostFName(@.cur)))
                   EXCEPT !.name = HostFName(th[t].cur), !.ph = "ts_size"]]
    /\ UNCHANGED <<s_instance, s_functions, guard, bound, created, fetches,
                   ncalls, active, budget, passed, hostOuter,
                   activations, rejected>>

\* ---------------------------------------------------------- NameResolver
\* to_string's second call without room for the terminator.
ToStringFillCap_NoTerminator(size) == size

\* The length argument of to_string's second call.
ToStringFillCap(size) == size + 1

\* The outer's name appended instead of prepended.
PrependOuter_Appends(outer_name, obj_name) == obj_name \o <<Dot>> \o outer_name

\* obj_name = outer->get_fname()->to_string() + L'.' + obj_name;
PrependOuter(outer_name, obj_name) == outer_name \o <<Dot>> \o obj_name

\* return c->get_fname()->to_string() + L' ' + obj_name;
FullName(class_name, obj_name) == class_name \o <<Space>> \o obj_name

\* to_string returned text to the statement that asked for it.
StringDone(r, text) ==
    CASE r.k = "own" -> [r EXCEPT !.obj_name = text, !.cur = r.self, !.ph = "fn_outer"]
      [] r.k = "anc" -> [r EXCEPT !.obj_name = PrependOuter(text, @), !.ph = "fn_outer"]
      [] r.k = "cls" -> [Returned(r, "ok") EXCEPT !.retS = FullName(text, r.obj_name)]
      [] OTHER -> [Returned(r, "ok") EXCEPT !.retS = text]

\* const auto size = fn(to_handle(), nullptr, 0); if (size == 0) return L"";
ToStringSize(t) ==
    /\ Ready(th[t]) /\ th[t].ph = "ts_size"
    /\ LET size == Len(HostText(th[t].name))
           r == Logged(th[t], HostCall("FName.to_string", th[t].name, TRUE, 0, 0, 0,
                                       size))
       IN th' = [th EXCEPT ![t] =
                   IF size = 0 THEN StringDone([r EXCEPT !.size = 0], <<>>)
                   ELSE [r EXCEPT !.size = size, !.ph = "ts_fill"]]
    /\ UNCHANGED <<s_instance, s_functions, guard, bound, created, fetches,
                   ncalls, active, budget, passed, hostOuter,
                   activations, rejected>>

\* std::wstring result(size, L'\0'); fn(to_handle(), result.data(), size + 1);
ToStringFill(t) ==
    /\ Ready(th[t]) /\ th[t].ph = "ts_fill"
    /\ LET size == th[t].size
           cap == ToStringFillCap(size)
           r == Logged(th[t], HostCall("FName.to_string", th[t].name, FALSE, size, cap,
                                       0, Len(HostText(th[t].name))))
       IN th' = [th EXCEPT ![t] =
                   StringDone(r, HostToStringFill(th[t].name, size, cap))]
    /\ UNCHANGED <<s_instance, s_functions, guard, bound, created, fetches,
                   ncalls, active, budget, passed, hostOuter,
                   activations, rejected>>

\* ------------------------------------------------------ OuterChainResolver
\* get_full_name without its c == nullptr return.
ClassMissing_Never(c) == FALSE

\* if (c == nullptr) return L"";
ClassMissing(c) == c = Null

\* const auto c = get_class(); if (c == nullptr) return L"";
FullNameClass(t) ==
    /\ Ready(th[t]) /\ th[t].ph = "fn_class"
    /\ LET c == HostClass(th[t].self)
           r == Logged(th[t], HostCall("UObject.get_class", th[t].self, TRUE, 0, 0, 0, c))
       IN th' = [th EXCEPT ![t] =
                   IF ClassMissing(c) THEN Returned(r, "ok")
                   ELSE [r EXCEPT !.c = c, !.cur = r.self, !.k = "own",
                                  !.fn = "UObject.get_fname", !.ph = "fname"]]
    /\ UNCHANGED <<s_instance, s_functions, guard, bound, created, fetches,
                   ncalls, active, budget, passed, hostOuter,
                   activations, rejected>>

\* The for loop's test without its outer != nullptr half.
WalkContinues_NoNullTest(outer, this) == outer # this

\* The for loop's test without its outer != this half.
WalkContinues_NoSelfTest(outer, this) == outer # Null

\* The for loop's test: outer != nullptr && outer != this.
WalkContinues(outer, this) == outer # Null /\ outer # this

\* outer = <cur>->get_outer(), then the loop test; past the loop, the class
\* name is resolved.  The model stops a walk after MaxWalk iterations.
FullNameOuter(t) ==
    /\ Ready(th[t]) /\ th[t].ph = "fn_outer"
    /\ \E outer \in HostOuters(th[t].cur) :
         LET r == Logged(th[t], HostCall("UObject.get_outer", th[t].cur, TRUE, 0, 0, 0,
                                         outer))
         IN /\ th' = [th EXCEPT ![t] =
                        IF WalkContinues(outer, r.self)
                        THEN IF r.walk < MaxWalk
                             THEN [r EXCEPT !.cur = outer, !.k = "anc", !.ph = "fname",
                                            !.walk = @ + 1]
                             ELSE [r EXCEPT !.pc = "capped"]
                        ELSE [r EXCEPT !.cur = r.c, !.k = "cls", !.ph = "fname"]]
            /\ hostOuter' = Observed(th[t].cur, outer)
    /\ UNCHANGED <<s_instance, s_functions, guard, bound, created, fetches,
                   ncalls, active, budget, passed, activations, rejected>>

\* -------------------------------------------------- static_class, is_a<T>
\* static_class caching only a class that was found.
ClassCached_OnlyFound(res) == IF res = Null THEN "uninit" ELSE "done"

\* static auto result = ...: once the initialiser has returned the static is
\* initialised, with whatever pointer the lookup gave, null included.
ClassCached(res) == "done"

\* find_uobject: return (T*)fn(name.data()); the answer becomes the value of
\* the static_class static that is being initialised.
FindUObjectCall(t) ==
    /\ Ready(th[t]) /\ th[t].ph = "fu"
    /\ \E res \in {Null, Klass} :
         /\ guard' = [guard EXCEPT ![StaticClassSite(th[t].tk)] = ClassCached(res)]
         /\ bound' = [bound EXCEPT ![StaticClassSite(th[t].tk)] = res]
         /\ th' = [th EXCEPT ![t] =
                     [Logged(@, HostCall("API.find_uobject", Null, TRUE, 0, 0, 0, res))
                        EXCEPT !.ph = "sc"]]
    /\ UNCHANGED <<s_instance, s_functions, created, fetches, ncalls, active,
                   budget, passed, hostOuter, activations, rejected>>

\* static_class(): return result;  is_a<T>(): return is_a(T::static_class());
StaticClassReturn(t) ==
    /\ Ready(th[t]) /\ th[t].ph = "sc"
    /\ LET res == bound[StaticClassSite(th[t].tk)]
       IN th' = [th EXCEPT ![t] =
                   IF @.op = "static_class"
                   THEN [Returned(@, "ok") EXCEPT !.retH = res]
                   ELSE [@ EXCEPT !.arg = res, !.fn = "UObject.is_a", !.ph = "simple"]]
    /\ UNCHANGED <<s_instance, s_functions, guard, bound, created, fetches,
                   ncalls, active, budget, passed, hostOuter,
                   activations, rejected>>

\* UFunction::call without its obj == nullptr return.
ObjectAbsent_Never(obj) == FALSE

\* if (obj == nullptr) return;
ObjectAbsent(obj) == obj = Null

\* UFunction::call: if (obj == nullptr) return; obj->process_event(this, params);
FunctionCall(t) ==
    /\ Ready(th[t]) /\ th[t].ph = "call_chk"
    /\ th' = [th EXCEPT ![t] =
                IF ObjectAbsent(@.arg) THEN Returned(@, "ok")
                ELSE [@ EXCEPT !.cur = th[t].arg,
                               !.fn = "UObject.process_event", !.ph = "call_pe"]]
    /\ UNCHANGED <<s_instance, s_functions, guard, bound, created, fetches,
                   ncalls, active, budget, passed, hostOuter,
                   activations, rejected>>

\* process_event entered from UFunction::call: the object is the receiver,
\* this function the argument.  fn(to_handle(), function->to_handle(), params);
FunctionProcessEvent(t) ==
    /\ Ready(th[t]) /\ th[t].ph = "call_pe"
    /\ th' = [th EXCEPT ![t] =
                Returned(Logged(@, HostCall("UObject.process_event", @.cur, TRUE, 0, 0,
                                            @.self, 0)), "ok")]
    /\ UNCHANGED <<s_instance, s_functions, guard, bound, created, fetches,
                   ncalls, active, budget, passed, hostOuter,
                   activations, rejected>>

\* ------------------------------------------------ ArraySequenceMarshaller
\* The first of the two statics of an enumeration is initialised.
EnumStatics(t) ==
    /\ Ready(th[t]) /\ th[t].ph \in {"gom_s1", "gfo_s1"}
    /\ th' = [th EXCEPT ![t].ph = IF @ = "gom_s1" THEN "gom_s2" ELSE "gfo_s2"]
    /\ UNCHANGED <<s_instance, s_functions, guard, bound, created, fetches,
                   ncalls, active, budget, passed, hostOuter,
                   activations, rejected>>

\* The enumeration wrappers without their activate_fn() statement.
ActivateCalls_Skipped(r) == <<>>

\* activate_fn(): the host calls the statement makes.
ActivateCalls(r) == <<HostCall("activate", Null, TRUE, 0, 0, 0, 0)>>

\* activate_fn();
Activate(t) ==
    /\ Ready(th[t]) /\ th[t].ph \in {"gom_s2", "gfo_s2"}
    /\ th' = [th EXCEPT ![t] =
                [@ EXCEPT !.calls = @ \o ActivateCalls(th[t]),
                          !.ph = IF @ = "gom_s2" THEN "gom_size" ELSE "gfo_call"]]
    /\ activations' = activations + Len(ActivateCalls(th[t]))
    /\ UNCHANGED <<s_instance, s_functions, guard, bound, created, fetches,
                   ncalls, active, budget, passed, hostOuter, rejected>>

\* get_objects_matching without its size == 0 return.
EnumIsEmpty_Never(size) == FALSE

\* The fill call given one element more than the buffer holds.
EnumFillCap_PlusOne(size) == size + 1

\* The result cut down to the count the fill call returned.
EnumReturn_Truncated(buffer, filled) ==
    SubSeq(buffer, 1, Min(Len(buffer), filled))

\* if (size == 0) return result;
EnumIsEmpty(size) == size = 0

\* fn(to_handle(), result.data(), size, allow_default); return result;
\* the count the fill call returns is discarded.
EnumReturn(buffer, filled) == buffer

\* The capacity argument of get_objects_by_class's second call.
EnumFillCap(size) == size

\* const auto size = fn(to_handle(), nullptr, 0, allow_default);
GetObjectsSize(t) ==
    /\ Ready(th[t]) /\ th[t].ph = "gom_size"
    /\ \E n \in 0..MaxLive :
         LET size == Len(HostMatching(n, th[t].arg))
             r == Logged(th[t], HostCall("get_objects_by_class", th[t].self, TRUE, 0, 0,
                                         th[t].arg, size))
         IN th' = [th EXCEPT ![t] =
                     IF EnumIsEmpty(size) THEN [Returned(r, "ok") EXCEPT !.size = size]
                     ELSE [r EXCEPT !.size = size, !.ph = "gom_fill"]]
    /\ UNCHANGED <<s_instance, s_functions, guard, bound, created, fetches,
                   ncalls, active, budget, passed, hostOuter,
                   activations, rejected>>

\* result.resize(size); fn(to_handle(), result.data(), size, allow_default);
GetObjectsFill(t) ==
    /\ Ready(th[t]) /\ th[t].ph = "gom_fill"
    /\ \E n \in 0..MaxLive :
         LET size == th[t].size
             cap == EnumFillCap(size)
             r == Logged(th[t], HostCall("get_objects_by_class", th[t].self, FALSE,
                                         size, cap, th[t].arg,
                                         Len(HostMatching(n, th[t].arg))))
         IN th' = [th EXCEPT ![t] =
                     [Returned(r, "ok") EXCEPT
                        !.retS = EnumReturn(HostObjectsFill(n, th[t].arg, size, cap),
                                            Len(HostMatching(n, th[t].arg)))]]
    /\ UNCHANGED <<s_instance, s_functions, guard, bound, created, fetches,
                   ncalls, active, budget, passed, hostOuter,
                   activations, rejected>>

\* return (UObject*)fn(to_handle(), allow_default);
GetFirstObject(t) ==
    /\ Ready(th[t]) /\ th[t].ph = "gfo_call"
    /\ \E n \in 0..MaxLive :
         LET m == HostMatching(n, th[t].arg)
             res == IF Len(m) = 0 THEN Null ELSE m[1]
             r == Logged(th[t], HostCall("get_first_object_by_class", th[t].self, TRUE,
                                         0, 0, th[t].arg, res))
         IN th' = [th EXCEPT ![t] = [Returned(r, "ok") EXCEPT !.retH = res]]
    /\ UNCHANGED <<s_instance, s_functions, guard, bound, created, fetches,
                   ncalls, active, budget, passed, hostOuter,
                   activations, rejected>>

\* ------------------------------------------------------ specifications
Next ==
    \/ \E t \in active : BeginCall(t)
    \/ \E t \in active : InitializeCheck(t)
    \/ \E t \in active : InitializeMake(t)
    \/ \E t \in active : APIGet(t)
    \/ \E t \in active : StaticBegin(t)
    \/ \E t \in active : KindInitialize(t)
    \/ \E t \in active : GetThrow(t)
    \/ \E t \in active : TableFetch(t)
    \/ \E t \in active : HookFetch(t)
    \/ \E t \in active : ClassLookup(t)
    \/ \E t \in active : FindUObjectBind(t)
    \/ \E t \in active : SimpleCall(t)
    \/ \E t \in active : GetFName(t)
    \/ \E t \in active : ToStringSize(t)
    \/ \E t \in active : ToStringFill(t)
    \/ \E t \in active : FullNameClass(t)
    \/ \E t \in active : FullNameOuter(t)
    \/ \E t \in active : FindUObjectCall(t)
    \/ \E t \in active : StaticClassReturn(t)
    \/ \E t \in active : FunctionCall(t)
    \/ \E t \in active : FunctionProcessEvent(t)
    \/ \E t \in active : EnumStatics(t)
    \/ \E t \in active : Activate(t)
    \/ \E t \in active : GetObjectsSize(t)
    \/ \E t \in active : GetObjectsFill(t)
    \/ \E t \in active : GetFirstObject(t)

\* The bridge used from one thread.
Spec == Init /\ [][Next]_vars

\* Two threads, started either before or after the plugin's entry point has
\* called API::initialize.
InitMT ==
    /\ Init0
    /\ s_instance \in {NoInstance, [id |-> 1, param |-> 1]}
    /\ created = s_instance.id
    /\ passed = s_instance.param
    /\ active = Threads
    /\ budget = MaxCallsMT

\* The bridge used from two threads at once.
SpecMT == InitMT /\ [][Next]_vars

\* ------------------------------------------------------------ properties
\* The step of thread t that ends its call.
Completes(t) == th[t].pc # "done" /\ th'[t].pc = "done"

\* C1: once initialize has succeeded, every initialize call with a non-null
\* descriptor ends rejected with "already initialized", and no step replaces
\* the instance or constructs another one.
C1_SecondInitializeRejected ==
    [][s_instance.id # Null =>
         /\ s_instance' = s_instance
         /\ created' = created
         /\ \A t \in active :
              (th[t].op = "API.initialize" /\ th[t].arg # Null /\ Completes(t))
                  => th'[t].out = "already_initialized"]_vars

\* C1 witness: a second initialize, with another descriptor, was rejected and
\* the instance is still the first one.
C1_Witness ==
    /\ th[1].op = "API.initialize" /\ th[1].pc = "done"
    /\ th[1].out = "already_initialized"
    /\ th[1].arg = 2
    /\ s_instance = [id |-> 1, param |-> 1]

\* C2 as stated: while initialize has not succeeded, every wrapper operation,
\* UFunction::call with an absent object included, makes no host call and
\* ends only with "not initialized".
C2_EveryWrapperRejected ==
    s_instance.id = Null =>
        \A t \in active :
            th[t].op \in WrapperOps =>
                /\ th[t].calls = <<>>
                /\ th[t].pc = "done" => th[t].out = "not_initialized"

\* UFunction::call with an absent object.
IsAbsentCall(r) == r.op = "UFunction.call" /\ r.arg = Null

\* C2 amended: while initialize has not succeeded, every wrapper operation
\* other than UFunction::call with an absent object makes no host call and
\* ends only with "not initialized"; UFunction::call with an absent object
\* returns normally, also without a host call.
C2_WrapperRejectedUnlessAbsentCall ==
    s_instance.id = Null =>
        \A t \in active :
            th[t].op \in WrapperOps =>
                /\ th[t].calls = <<>>
                /\ th[t].pc = "done" =>
                     th[t].out = IF IsAbsentCall(th[t]) THEN "ok"
                                 ELSE "not_initialized"

\* C2 witness: an enumeration was rejected before initialize.
C2_Witness ==
    /\ s_instance.id = Null
    /\ th[1].op = "UClass.get_objects_matching" /\ th[1].pc = "done"
    /\ th[1].out = "not_initialized"

\* C3: an initialize call with a null descriptor ends with "null descriptor"
\* and changes neither the singleton nor any cache, whether or not the
\* singleton exists; and while the singleton is empty an initialize call with
\* a descriptor passes both tests and goes on to construct it.
C3_NullDescriptorRejected ==
    [][\A t \in active :
         /\ (th[t].op = "API.initialize" /\ th[t].arg = Null /\ Completes(t))
               => /\ th'[t].out = "null_param"
                  /\ UNCHANGED <<s_instance, created, s_functions, guard, bound>>
         /\ (th[t].op = "API.initialize" /\ th[t].arg # Null
               /\ th[t].ph = "ini_chk" /\ th'[t].ph # "ini_chk"
               /\ s_instance.id = Null)
               => th'[t].ph = "ini_make" /\ th'[t].pc = "run"]_vars

\* C3 witness: a null descriptor was rejected while the singleton existed.
C3_Witness ==
    /\ th[1].op = "API.initialize" /\ th[1].pc = "done"
    /\ th[1].arg = Null /\ th[1].out = "null_param"
    /\ s_instance.id = 1

\* C4: used from one thread, each kind's table pointer is read from the
\* descriptor at most once, and once it is cached no step reads it again or
\* changes the cached pointer.
C4_TableFetchedAtMostOnce ==
    /\ [](\A k \in Kinds : fetches[k] <= 1)
    /\ [][\A k \in Kinds :
            s_functions[k] # Null =>
                s_functions'[k] = s_functions[k] /\ fetches'[k] = fetches[k]]_vars

\* C4 witness: two different operations of the object kind are bound, its
\* table was fetched once, and a second call runs on the cached pointers.
C4_Witness ==
    /\ guard["UObject.get_class"] = "done"
    /\ guard["UObject.get_fname"] = "done"
    /\ guard["UObject.get_outer"] = "done"
    /\ fetches["uobject"] = 1
    /\ ncalls = 3
    /\ th[1].op = "UObject.get_outer" /\ th[1].pc = "done" /\ th[1].out = "ok"

\* C5: with two threads, each kind's table pointer is read from the descriptor
\* at most once in every interleaving.
C5_ConcurrentFetchAtMostOnce ==
    Cardinality(active) = 2 => \A k \in Kinds : fetches[k] <= 1

\* C6: with two threads, at most one API object is ever constructed, the
\* stored instance is never replaced, and two initialize calls with
\* descriptors never both succeed.
C6_SingleConstruction ==
    Cardinality(active) = 2 =>
        /\ created <= 1
        /\ s_instance.id <= 1
        /\ ~(\A t \in active :
               /\ th[t].op = "API.initialize" /\ th[t].pc = "done"
               /\ th[t].out = "ok")

\* The host calls of function f in log.
CallsOf(log, f) == SelectSeq(log, LAMBDA e : e.fn = f)

\* C7: FName::to_string first asks with a null buffer and length 0; a count
\* of 0 ends it with the empty string and no second call; otherwise exactly
\* one more call follows, on the same name, with a buffer of count characters
\* and length count + 1; the returned string is count characters long.
C7_ToStringTwoCalls ==
    \A t \in active :
        th[t].op = "FName.to_string" /\ th[t].calls # <<>> =>
            LET log == th[t].calls
                count == log[1].res
            IN /\ log[1] = HostCall("FName.to_string", th[t].self, TRUE, 0, 0, 0, count)
               /\ Len(log) <= 2
               /\ th[t].pc = "done" =>
                    /\ th[t].out = "ok"
                    /\ Len(th[t].retS) = count
                    /\ Len(log) = IF count = 0 THEN 1 ELSE 2
               /\ Len(log) = 2 =>
                    /\ count # 0
                    /\ log[2].fn = "FName.to_string" /\ log[2].h = th[t].self
                    /\ ~log[2].nullbuf
                    /\ log[2].buflen = count
                    /\ log[2].cap = count + 1

\* C7 witness: a two-character name was resolved in two calls.
C7_Witness ==
    /\ th[1].op = "FName.to_string" /\ th[1].pc = "done"
    /\ Len(th[1].calls) = 2
    /\ th[1].retS = <<75, 108>>

\* C8: when the size query of get_objects_matching reports zero objects, the
\* call returns the empty sequence and the enumeration function is called
\* that once only.
C8_EmptyEnumerationSkipsFill ==
    \A t \in active :
        LET e == CallsOf(th[t].calls, "get_objects_by_class")
        IN (th[t].op = "UClass.get_objects_matching" /\ e # <<>> /\ e[1].res = 0) =>
               /\ Len(e) = 1
               /\ e[1].nullbuf
               /\ th[t].pc = "done" /\ th[t].out = "ok"
               /\ th[t].retS = <<>>

\* C8 witness: an enumeration that found nothing has returned.
C8_Witness ==
    /\ th[1].op = "UClass.get_objects_matching" /\ th[1].pc = "done"
    /\ th[1].out = "ok"
    /\ th[1].size = 0
    /\ Len(th[1].calls) = 2

\* C9: when the size query of get_objects_matching reports N > 0 objects, the
\* completed call has called the enumeration function exactly twice, first
\* with a null buffer and capacity 0, then with a buffer of N handles and
\* capacity N, both with the same class handle and allow_default flag, and
\* returns N elements.
C9_EnumerationTwoCalls ==
    \A t \in active :
        LET e == CallsOf(th[t].calls, "get_objects_by_class")
        IN (th[t].op = "UClass.get_objects_matching" /\ th[t].pc = "done"
              /\ e # <<>> /\ e[1].res > 0) =>
               LET n == e[1].res
               IN /\ Len(e) = 2
                  /\ e[1] = HostCall("get_objects_by_class", th[t].self, TRUE, 0, 0,
                                     th[t].arg, n)
                  /\ ~e[2].nullbuf /\ e[2].buflen = n /\ e[2].cap = n
                  /\ e[2].h = th[t].self /\ e[2].flag = th[t].arg
                  /\ th[t].out = "ok"
                  /\ Len(th[t].retS) = n

\* C9 witness: an enumeration of several objects has returned them all.
C9_Witness ==
    /\ th[1].op = "UClass.get_objects_matching" /\ th[1].pc = "done"
    /\ Len(th[1].retS) = MaxLive + 1
    /\ \A i \in 1..Len(th[1].retS) : th[1].retS[i] # Null

\* The outer chain of o is known, has no cycle and ends at an object with no
\* outer.
RECURSIVE Rooted(_, _)
Rooted(o, fuel) ==
    \/ o \notin Objs
    \/ /\ o \in DOMAIN hostOuter
       /\ \/ hostOuter[o] = Null
          \/ fuel > 0 /\ Rooted(hostOuter[o], fuel - 1)

\* The names from the root of o's outer chain down to o, joined by dots.
RECURSIVE Path(_)
Path(o) ==
    IF o \notin Objs \/ hostOuter[o] = Null THEN HostText(HostFName(o))
    ELSE Path(hostOuter[o]) \o <<Dot>> \o HostText(HostFName(o))

\* C10: for an object that has a class and whose outer chain ends at an
\* object with no outer, get_full_name returns the class name, a space, and
\* the names of the chain from the outermost object down to the object
\* itself, joined by dots.
C10_FullNameOfChain ==
    \A t \in active :
        (/\ th[t].op = "UObject.get_full_name" /\ th[t].pc = "done"
         /\ th[t].out = "ok"
         /\ HostClass(th[t].self) # Null
         /\ Rooted(th[t].self, NObj)) =>
            th[t].retS = HostText(HostFName(HostClass(th[t].self)))
                            \o <<Space>> \o Path(th[t].self)

\* C10 witness: the chain 1 <- 2 <- 3 (A <- B <- C) gave "Kl A.B.C".
C10_Witness ==
    /\ th[1].op = "UObject.get_full_name" /\ th[1].pc = "done"
    /\ th[1].self = 3
    /\ DOMAIN hostOuter = {1, 2, 3}
    /\ hostOuter[3] = 2 /\ hostOuter[2] = 1 /\ hostOuter[1] = Null
    /\ th[1].retS = <<75, 108, 32, 65, 46, 66, 46, 67>>

\* The names of the host functions called in log, in call order.
Functions(log) == [i \in 1..Len(log) |-> log[i].fn]

\* C11: for an object that has a class and is its own outer, get_full_name
\* never enters the body of the outer walk: it asks for the outer once, makes
\* eight host calls in all, and returns the class name, a space and the
\* object's own name, with no ancestor prefix.
C11_SelfOuterFullName ==
    \A t \in active :
        (/\ th[t].op = "UObject.get_full_name"
         /\ HostClass(th[t].self) # Null
         /\ th[t].self \in DOMAIN hostOuter
         /\ hostOuter[th[t].self] = th[t].self) =>
            /\ th[t].walk = 0
            /\ th[t].pc # "capped"
            /\ Len(CallsOf(th[t].calls, "UObject.get_outer")) <= 1
            /\ (th[t].pc = "done" /\ th[t].out = "ok") =>
                 /\ Functions(th[t].calls) =
                        <<"UObject.get_class", "UObject.get_fname", "FName.to_string",
                          "FName.to_string", "UObject.get_outer", "UObject.get_fname",
                          "FName.to_string", "FName.to_string">>
                 /\ th[t].retS = HostText(HostFName(HostClass(th[t].self)))
                                    \o <<Space>> \o HostText(HostFName(th[t].self))

\* C11 witness: object 3 (C) is its own outer and its full name is "Kl C".
C11_Witness ==
    /\ th[1].op = "UObject.get_full_name" /\ th[1].pc = "done"
    /\ th[1].self = 3
    /\ 3 \in DOMAIN hostOuter /\ hostOuter[3] = 3
    /\ th[1].walk = 0
    /\ th[1].retS = <<75, 108, 32, 67>>

\* The two enumeration wrappers of UClass.
EnumOps == {"UClass.get_objects_matching", "UClass.get_first_object_matching"}

\* The host's two enumeration functions.
EnumFns == {"get_objects_by_class", "get_first_object_by_class"}

\* C12 as stated: over all the enumeration calls of a behaviour the host's
\* activation function is called at most once, and it has been called before
\* any enumeration function is.
C12_ActivatedExactlyOnce ==
    /\ activations <= 1
    /\ \A t \in active :
           (\E i \in 1..Len(th[t].calls) : th[t].calls[i].fn \in EnumFns)
               => activations = 1

\* C12 amended: every call of get_objects_matching or get_first_object_matching
\* calls the activation function exactly once, as its first host call and so
\* before its enumeration calls, whether or not an earlier call activated
\* already; only the two function pointers are bound once.
C12_ActivatedOncePerCall ==
    /\ [](\A t \in active :
            th[t].op \in EnumOps =>
                /\ Len(CallsOf(th[t].calls, "activate")) <= 1
                /\ th[t].calls # <<>> => th[t].calls[1].fn = "activate"
                /\ (th[t].pc = "done" /\ th[t].out = "ok")
                      => Len(CallsOf(th[t].calls, "activate")) = 1)
    /\ [][\A t \in active :
            (/\ th[t].op \in EnumOps
             /\ th[t].ph \in {"gom_s2", "gfo_s2"}
             /\ th'[t].ph \notin {"gom_s2", "gfo_s2"})
                => activations' = activations + 1]_vars

\* C12 witness: a second enumeration call has returned, through the other
\* wrapper; the host was activated once by the first call and once more by
\* this one.
C12_Witness ==
    /\ th[1].op = "UClass.get_first_object_matching" /\ th[1].pc = "done"
    /\ th[1].out = "ok"
    /\ Len(CallsOf(th[1].calls, "activate")) = 1
    /\ guard["UClass.get_objects_matching.activate_fn"] = "done"
    /\ activations = 2

\* The n-th outer of o in the outer relation the host has shown so far, Null
\* where the chain ends or is not known yet.
RECURSIVE Up(_, _)
Up(o, n) ==
    IF n = 0 THEN o
    ELSE IF o \notin DOMAIN hostOuter THEN Null
    ELSE Up(hostOuter[o], n - 1)

\* o lies on a cycle of exactly len objects.
OnCycle(o, len) ==
    /\ o \in Objs
    /\ Up(o, len) = o
    /\ \A j \in 1..(len - 1) : Up(o, j) # o

\* The outer chain of o runs into a cycle of two or more objects.
ReachesCycle(o) ==
    \E i \in 0..NObj : \E len \in 2..NObj : OnCycle(Up(o, i), len)

\* o itself lies on a cycle of two or more objects.
ThroughStart(o) == \E len \in 2..NObj : OnCycle(o, len)

\* The names of the len objects of the cycle through o, ending with o's own,
\* joined by dots.
RECURSIVE CycleNames(_, _)
CycleNames(o, len) ==
    IF len = 1 THEN HostText(HostFName(o))
    ELSE HostText(HostFName(Up(o, len - 1))) \o <<Dot>> \o CycleNames(o, len - 1)

\* The result of the latest get_outer call in log.
LastOuter(log) ==
    LET g == CallsOf(log, "UObject.get_outer") IN g[Len(g)].res

\* C13 as stated: a get_full_name call on an object whose outer chain runs
\* into a cycle of two or more objects never returns, whether or not the
\* object lies on the cycle itself.
C13_AnyCycleNeverReturns ==
    \A t \in active :
        (th[t].op = "UObject.get_full_name" /\ ReachesCycle(th[t].self))
            => th[t].pc # "done"

\* C13 amended: the outer walk of get_full_name stops exactly when the outer
\* is absent or is the starting object.  A cycle of two or more objects that
\* does not contain the starting object is never left: the call does not
\* return.  A cycle through the starting object ends the walk when it comes
\* back to the start, after one pass, and the call returns the names of the
\* cycle's objects.
C13_WalkStopsAtNullOrStart ==
    \A t \in active :
        th[t].op = "UObject.get_full_name" =>
            /\ (th[t].k = "cls" /\ th[t].pc # "capped")
                  => LastOuter(th[t].calls) \in {Null, th[t].self}
            /\ (th[t].k = "anc" \/ th[t].pc = "capped")
                  => LastOuter(th[t].calls) \notin {Null, th[t].self}
            /\ (ReachesCycle(th[t].self) /\ ~ThroughStart(th[t].self))
                  => th[t].pc # "done" /\ th[t].k # "cls"
            /\ \A len \in 2..NObj :
                  OnCycle(th[t].self, len) =>
                      /\ th[t].walk <= len - 1
                      /\ th[t].pc # "capped"
                      /\ (th[t].pc = "done" /\ th[t].out = "ok") =>
                            th[t].retS = FullName(HostText(HostFName(th[t].c)),
                                                  CycleNames(th[t].self, len))

\* C13 witness: 3's outer is 2, and 1 and 2 are each other's outer; the walk
\* from 3 was still going round when the model stopped it.
C13_Witness ==
    /\ th[1].op = "UObject.get_full_name" /\ th[1].pc = "capped"
    /\ th[1].self = 3 /\ th[1].walk = MaxWalk
    /\ DOMAIN hostOuter = {1, 2, 3}
    /\ hostOuter[3] = 2 /\ hostOuter[2] = 1 /\ hostOuter[1] = 2

\* C14: when the fill call of get_objects_matching reports another count than
\* the size query did, the call still returns normally after those two
\* enumeration calls: the fill call was given the first count as capacity,
\* the returned sequence has the first count's length, the elements the host
\* filled are set and the elements it did not fill are null.
C14_CountMismatchIgnored ==
    \A t \in active :
        LET e == CallsOf(th[t].calls, "get_objects_by_class")
        IN (/\ th[t].op = "UClass.get_objects_matching"
            /\ Len(e) >= 2
            /\ e[2].res # e[1].res) =>
               /\ th[t].pc = "done" /\ th[t].out = "ok"
               /\ Len(e) = 2 /\ Len(th[t].calls) = 3
               /\ e[2].cap = e[1].res /\ e[2].buflen = e[1].res
               /\ Len(th[t].retS) = e[1].res
               /\ \A i \in 1..Len(th[t].retS) :
                      th[t].retS[i] = Null <=> i > e[2].res

\* C14 witness: the host reported two objects, then filled only one; the
\* result has two elements and the second is null.
C14_Witness ==
    /\ th[1].op = "UClass.get_objects_matching" /\ th[1].pc = "done"
    /\ th[1].size = 2
    /\ Len(th[1].retS) = 2
    /\ th[1].retS[1] # Null /\ th[1].retS[2] = Null

\* C15: when get_class finds no class for the object, get_full_name returns
\* the empty string normally, and the class lookup is the only host call it
\* makes: no name, outer or to_string call follows.
C15_NoClassEmptyName ==
    \A t \in active :
        (th[t].op = "UObject.get_full_name" /\ HostClass(th[t].self) = Null) =>
            /\ Len(th[t].calls) <= 1
            /\ \A i \in 1..Len(th[t].calls) :
                   th[t].calls[i] = HostCall("UObject.get_class", th[t].self, TRUE,
                                             0, 0, 0, Null)
            /\ th[t].calls # <<>> =>
                   /\ th[t].pc = "done" /\ th[t].out = "ok"
                   /\ th[t].retS = <<>>
            /\ th[t].pc = "done" => th[t].out \in {"ok", "not_initialized"}

\* C15 witness: the full name of the object without a class was asked for
\* and came back empty after the one class lookup.
C15_Witness ==
    /\ th[1].op = "UObject.get_full_name" /\ th[1].pc = "done"
    /\ th[1].self = Orphan /\ th[1].out = "ok"
    /\ Len(th[1].calls) = 1
    /\ th[1].retS = <<>>

\* The number of find_uobject host calls in log.
Lookups(log) == Len(CallsOf(log, "API.find_uobject"))

\* C16: for each wrapper kind that declares static_class, the named lookup is
\* made only while that kind's static is being initialised and initialises
\* it; once initialised, with a class or with null, the static keeps its
\* value, no call of that kind looks the class up again, and every
\* static_class call of the kind returns the cached value.
C16_StaticClassLookedUpOnce ==
    /\ [](\A t \in active : Lookups(th[t].calls) <= 1)
    /\ [][\A t \in active :
            LET s == StaticClassSite(th'[t].tk)
            IN th'[t].tk \in ClassKinds =>
                 /\ (th'[t].op = th[t].op /\ th'[t].tk = th[t].tk
                        /\ Lookups(th'[t].calls) > Lookups(th[t].calls))
                      => guard[s] = "busy" /\ guard'[s] = "done"
                 /\ guard[s] = "done"
                      => /\ guard'[s] = "done" /\ bound'[s] = bound[s]
                         /\ Lookups(th'[t].calls) <= Lookups(th[t].calls)
                 /\ (th'[t].op = "static_class" /\ th[t].pc = "run"
                        /\ th'[t].pc = "done" /\ th'[t].out = "ok")
                      => th'[t].retH = bound[s]]_vars

\* C16 witness: the lookup of the object class found nothing, and a later
\* is_a<UObject> call has run on the cached null without a lookup.
C16_Witness ==
    /\ guard[StaticClassSite("UObject")] = "done"
    /\ bound[StaticClassSite("UObject")] = Null
    /\ fetches["uobject_array"] = 1
    /\ th[1].op = "UObject.is_a<T>" /\ th[1].tk = "UObject"
    /\ th[1].pc = "done" /\ th[1].out = "ok"
    /\ Functions(th[1].calls) = <<"UObject.is_a">>

\* The bridge's own state: the singleton and every cache.
BridgeState == <<s_instance, created, s_functions, guard, bound, fetches>>

\* C17: UFunction::call with an absent object returns normally without any
\* host call, and no step of it changes the singleton or a cache; with a
\* present object the only host call it makes is one process_event on that
\* object with this function's handle, made by the time it returns normally.
C17_CallDelegatesOrNothing ==
    /\ [](\A t \in active :
            th[t].op = "UFunction.call" =>
                IF th[t].arg = Null
                THEN /\ th[t].calls = <<>>
                     /\ th[t].pc \in {"run", "done"}
                     /\ th[t].pc = "done" => th[t].out = "ok"
                ELSE /\ Len(th[t].calls) <= 1
                     /\ \A i \in 1..Len(th[t].calls) :
                            th[t].calls[i] = HostCall("UObject.process_event", th[t].arg,
                                                      TRUE, 0, 0, th[t].self, 0)
                     /\ (th[t].pc = "done" /\ th[t].out = "ok")
                           => Len(th[t].calls) = 1)
    /\ [][\A t \in active :
            (th'[t].op = "UFunction.call" /\ th'[t].arg = Null /\ th'[t] # th[t])
                => UNCHANGED BridgeState]_vars

\* C17 witness: a call on a present object has returned after its one
\* process_event call on that object.
C17_Witness ==
    /\ th[1].op = "UFunction.call" /\ th[1].pc = "done" /\ th[1].out = "ok"
    /\ th[1].arg = Klass
    /\ th[1].calls = <<HostCall("UObject.process_event", Klass, TRUE, 0, 0,
                                th[1].self, 0)>>

\* The function-local statics the wrapper operation op declares itself.
OwnSites(op) ==
    CASE op \in SimpleOps \cup {"FName.to_string"} -> {op}
      [] op = "UClass.get_objects_matching"
            -> {"UClass.get_objects_matching.activate_fn",
                "UClass.get_objects_matching.fn"}
      [] OTHER -> {}

\* C18: while initialize has not succeeded nothing is cached: no kind's
\* table pointer, no function-local static, no table read; a call that ended
\* "not initialized" leaves every static uninitialised.  Once initialize has
\* succeeded no wrapper call ends "not initialized", and an operation that
\* was rejected earlier returns normally with its statics initialised from
\* the descriptor of the singleton.
C18_RejectionLeavesCachesUnbound ==
    /\ s_instance.id = Null =>
          /\ \A k \in Kinds : s_functions[k] = Null
          /\ \A s \in Sites : guard[s] # "done" /\ bound[s] = Null
          /\ \A k \in Tables : fetches[k] = 0
    /\ \A t \in active :
          /\ (th[t].pc = "done" /\ th[t].out = "not_initialized"
                 /\ th[t].op \in WrapperOps)
                => /\ \A s \in Sites : guard[s] = "uninit"
                   /\ \A k \in Kinds : s_functions[k] = Null
          /\ (s_instance.id # Null /\ th[t].op \in WrapperOps /\ th[t].pc = "done")
                => th[t].out = "ok"
          /\ (s_instance.id # Null /\ th[t].op \in rejected /\ th[t].pc = "done")
                => /\ th[t].out = "ok"
                   /\ \A s \in OwnSites(th[t].op) :
                          /\ guard[s] = "done" /\ bound[s] = s_instance.param
                          /\ IsTableSite(s) =>
                                /\ s_functions[SiteTable(s)] = s_instance.param
                                /\ fetches[SiteTable(s)] = 1

\* C18 witness: get_class was rejected before initialize; after initialize
\* the same operation fetched the object table, bound its function pointer
\* and returned the object's class.
C18_Witness ==
    /\ "UObject.get_class" \in rejected
    /\ s_instance.id = 1
    /\ th[1].op = "UObject.get_class" /\ th[1].pc = "done" /\ th[1].out = "ok"
    /\ th[1].retH = Klass
    /\ guard["UObject.get_class"] = "done"
    /\ fetches["uobject"] = 1

====
